---- MODULE Spec2Model ----
(***************************************************************************)
(* Order-processing workflow of the paper-supply multi agent system:       *)
(* OrchestratorAgent.process_customer_request and its four stage parsers   *)
(* (src/agents/orchestrator_agent.py), the fulfillment tool                *)
(* (src/tools/fulfillment_tools.py) and the transactions store             *)
(* (src/database_setup.py).                                                *)
(*                                                                         *)
(* Python strings are sequences of tokens.  A token is a brace, a comma,   *)
(* a newline, a run of ordinary characters (a word) or one JSON member     *)
(* "key": value.  A JSON string value holds the decoded text, again a      *)
(* sequence of tokens.                                                     *)
(***************************************************************************)
EXTENDS Integers, Sequences, FiniteSets, TLC

\* ------------------------------------------------------------------ bounds
\* Longest participant response, counted in chunks (a chunk is one token or
\* one whole JSON object).
MaxChunks == 3
\* Largest quantity the fulfillment participant asks the tool to sell.
MaxQty == 3
\* Units of the item seeded as its stock order by init_database.
SeedStock == 2
\* Callers of create_transaction at one time, and pooled database connections.
MaxCallers == 2
MaxConns == 2
\* The longest comma-separated list handed to generate_quote_tool.
MaxItems == 2

\* ------------------------------------------------------------------ tokens
LB == [t |-> "lb"]
RB == [t |-> "rb"]
NL == [t |-> "nl"]
COMMA == [t |-> "comma"]
SP == [t |-> "sp"]
\* The decimal numeral of n.
D(n) == [t |-> "d", n |-> n]
W(s) == [t |-> "w", s |-> s]
M(k, v) == [t |-> "m", k |-> k, v |-> v]

JStr(x) == [jt |-> "str", s |-> x]
JNum(n) == [jt |-> "num", n |-> n]
JBool(b) == [jt |-> "bool", b |-> b]
JNull == [jt |-> "null"]
JList(l) == [jt |-> "list", l |-> l]
JDict(d) == [jt |-> "dict", d |-> d]

\* Python's None where a str is expected (restock_date: str = None).
None == <<[t |-> "None"]>>
EmptyDict == <<>>

\* str.upper() and str.lower() on the words the model's texts are made of.
UpperWord(s) ==
    CASE s = "decision: approve" -> "DECISION: APPROVE"
      [] s = "Decision: Decline" -> "DECISION: DECLINE"
      [] s = "approve" -> "APPROVE"
      [] s = "decline" -> "DECLINE"
      [] s = "Declined" -> "DECLINED"
      [] s = "Approved" -> "APPROVED"
      [] s = "price is fair" -> "PRICE IS FAIR"
      [] s = "too expensive" -> "TOO EXPENSIVE"
      [] s = "Unable to parse decision" -> "UNABLE TO PARSE DECISION"
      [] OTHER -> s

LowerWord(s) ==
    CASE s = "SUCCESS" -> "success"
      [] s = "Pending" -> "pending"
      [] s = "ERROR" -> "error"
      [] s = "TBD" -> "tbd"
      [] s = "N/A" -> "n/a"
      [] OTHER -> s

RECURSIVE upper(_)
upper(text) ==
    [i \in 1..Len(text) |->
        CASE text[i].t = "w" -> W(UpperWord(text[i].s))
          [] text[i].t = "m" /\ text[i].v.jt = "str" ->
                M(text[i].k, JStr(upper(text[i].v.s)))
          [] OTHER -> text[i]]

lower(text) ==
    [i \in 1..Len(text) |->
        IF text[i].t = "w" THEN W(LowerWord(text[i].s)) ELSE text[i]]

\* `literal in text`, for a literal that is one word: the characters of a JSON
\* string value are characters of the text too.
RECURSIVE Contains(_, _)
Contains(text, literal) ==
    \E i \in 1..Len(text) :
        \/ text[i] = W(literal)
        \/ /\ text[i].t = "m"
           /\ text[i].v.jt = "str"
           /\ Contains(text[i].v.s, literal)

\* text.split('\n')
RECURSIVE split(_)
split(text) ==
    IF \A i \in 1..Len(text) : text[i] # NL THEN <<text>>
    ELSE LET i == CHOOSE j \in 1..Len(text) :
                      text[j] = NL /\ \A h \in 1..(j - 1) : text[h] # NL
         IN <<SubSeq(text, 1, i - 1)>> \o split(SubSeq(text, i + 1, Len(text)))

\* ------------------------------------------------------- response extractor
\* Variant: the pattern is not greedy, the first "{" to the first "}" after
\* it.
re_search_lazy(response) ==
    LET opens == {i \in 1..Len(response) : response[i] = LB}
        closes == {i \in 1..Len(response) : response[i] = RB}
    IN IF opens = {} THEN [found |-> FALSE, group |-> <<>>]
       ELSE LET first == CHOOSE i \in opens : \A j \in opens : i <= j
                after == {j \in closes : j > first}
            IN IF after = {} THEN [found |-> FALSE, group |-> <<>>]
               ELSE LET last == CHOOSE j \in after : \A h \in after : j <= h
                    IN [found |-> TRUE, group |-> SubSeq(response, first, last)]

\* re.search(r'\{.*\}', response, re.DOTALL): the first "{" to the last "}".
re_search(response) ==
    LET opens == {i \in 1..Len(response) : response[i] = LB}
        closes == {i \in 1..Len(response) : response[i] = RB}
    IN IF opens = {} THEN [found |-> FALSE, group |-> <<>>]
       ELSE LET first == CHOOSE i \in opens : \A j \in opens : i <= j
                after == {j \in closes : j > first}
            IN IF after = {} THEN [found |-> FALSE, group |-> <<>>]
               ELSE LET last == CHOOSE j \in after : \A h \in after : h <= j
                    IN [found |-> TRUE, group |-> SubSeq(response, first, last)]

\* json.loads of a text that starts with "{": the decoded mapping, or
\* JSONDecodeError.  Newlines between tokens are whitespace; of two members
\* with one key the last wins.
json_loads(json_str) ==
    LET inner == SelectSeq(SubSeq(json_str, 2, Len(json_str) - 1),
                           LAMBDA tok : tok # NL)
        wellFormed ==
            /\ Len(json_str) >= 2
            /\ json_str[1] = LB
            /\ json_str[Len(json_str)] = RB
            /\ \/ inner = <<>>
               \/ /\ Len(inner) % 2 = 1
                  /\ \A i \in 1..Len(inner) :
                        IF i % 2 = 1 THEN inner[i].t = "m" ELSE inner[i] = COMMA
        keys == {inner[i].k : i \in {j \in 1..Len(inner) : j % 2 = 1}}
        lastOf(k) == CHOOSE i \in 1..Len(inner) :
                        /\ inner[i].t = "m" /\ inner[i].k = k
                        /\ \A j \in (i + 1)..Len(inner) :
                              ~(inner[j].t = "m" /\ inner[j].k = k)
    IN IF wellFormed
       THEN [exc |-> "none", val |-> [k \in keys |-> inner[lastOf(k)].v]]
       ELSE [exc |-> "JSONDecodeError"]

_extract_json_from_response(response) ==
    LET json_match == re_search(response)
    IN IF json_match.found
       THEN LET r == json_loads(json_match.group)
            IN IF r.exc = "none" THEN r.val ELSE EmptyDict
       ELSE EmptyDict

\* ------------------------------------------------------------ stage records
\* The outcome of a call: the value it returned, or the exception it raised.
Returned(v) == [exc |-> "none", val |-> v]
Raised(e) == [exc |-> e]

\* pydantic's validation of one field.  The payloads of the model carry
\* strings, numbers, booleans, null, lists and mappings; a value of another
\* JSON type than the field's is a ValidationError.
IsStr(data, k) == k \in DOMAIN data /\ data[k].jt = "str"
IsNum(data, k) == k \in DOMAIN data /\ data[k].jt = "num"
IsBool(data, k) == k \in DOMAIN data /\ data[k].jt = "bool"
IsList(data, k) == k \in DOMAIN data /\ data[k].jt = "list"
IsIntDict(data, k) ==
    /\ k \in DOMAIN data
    /\ data[k].jt = "dict"
    /\ \A n \in DOMAIN data[k].d : data[k].d[n].jt = "num"

\* InventoryStatus(**data)
InventoryStatus(data) ==
    IF /\ IsIntDict(data, "items")
       /\ IsList(data, "low_stock")
       /\ IsBool(data, "reorder_required")
       /\ "restock_date" \in DOMAIN data => IsStr(data, "restock_date")
    THEN Returned([items |-> [n \in DOMAIN data["items"].d |-> data["items"].d[n].n],
                   low_stock |-> data["low_stock"].l,
                   reorder_required |-> data["reorder_required"].b,
                   restock_date |-> IF "restock_date" \in DOMAIN data
                                    THEN data["restock_date"].s ELSE None])
    ELSE Raised("ValidationError")

\* QuoteDetails(**data)
QuoteDetails(data) ==
    IF /\ IsNum(data, "total_price")
       /\ IsList(data, "itemized_breakdown")
       /\ IsStr(data, "discount_applied")
    THEN Returned([total_price |-> data["total_price"].n,
                   itemized_breakdown |-> data["itemized_breakdown"].l,
                   discount_applied |-> data["discount_applied"].s])
    ELSE Raised("ValidationError")

\* CustomerDecision(**data)
CustomerDecision(data) ==
    IF IsStr(data, "decision") /\ IsStr(data, "reason")
    THEN Returned([decision |-> data["decision"].s, reason |-> data["reason"].s])
    ELSE Raised("ValidationError")

\* FulfillmentReceipt(**data)
FulfillmentReceipt(data) ==
    IF /\ IsStr(data, "status")
       /\ IsStr(data, "transaction_id")
       /\ IsStr(data, "delivery_date")
    THEN Returned([status |-> data["status"].s,
                   transaction_id |-> data["transaction_id"].s,
                   delivery_date |-> data["delivery_date"].s])
    ELSE Raised("ValidationError")

DefaultInventoryStatus ==
    [items |-> EmptyDict, low_stock |-> <<>>, reorder_required |-> FALSE,
     restock_date |-> <<>>]
DefaultQuoteDetails ==
    [total_price |-> 0, itemized_breakdown |-> <<>>, discount_applied |-> <<W("0%")>>]
DefaultCustomerDecision ==
    [decision |-> <<W("DECLINE")>>, reason |-> <<W("Unable to parse decision")>>]
DefaultFulfillmentReceipt ==
    [status |-> <<W("pending")>>, transaction_id |-> <<W("N/A")>>,
     delivery_date |-> <<W("TBD")>>]

\* ------------------------------------------------------------ stage parsers
\* Variant: the try block catches JSONDecodeError alone, so a
\* ValidationError leaves the parser.
_parse_inventory_response_uncaught(response) ==
    LET data == _extract_json_from_response(response)
        built == IF DOMAIN data # {} THEN InventoryStatus(data) ELSE Raised("fallthrough")
    IN IF built.exc \in {"none", "ValidationError"} THEN built
       ELSE Returned(DefaultInventoryStatus)

\* Variant: a payload without `items` or `low_stock` has them filled in
\* before the record is built.
_parse_inventory_response_coercing(response) ==
    LET data == _extract_json_from_response(response)
        keys == DOMAIN data \cup {"items", "low_stock"}
        filled == [k \in keys |->
                      IF k \in DOMAIN data THEN data[k]
                      ELSE IF k = "items" THEN JDict(<<>>) ELSE JList(<<>>)]
        built == IF DOMAIN data # {} THEN InventoryStatus(filled) ELSE Raised("fallthrough")
    IN IF built.exc = "none" THEN built ELSE Returned(DefaultInventoryStatus)

\* Each parser is `try: ... except Exception: print(...)` followed by the
\* return of the stage's default: whatever the try block raises is caught.
_parse_inventory_response(response) ==
    LET data == _extract_json_from_response(response)
        built == IF DOMAIN data # {} THEN InventoryStatus(data) ELSE Raised("fallthrough")
    IN IF built.exc = "none" THEN built ELSE Returned(DefaultInventoryStatus)

_parse_quote_response(response) ==
    LET data == _extract_json_from_response(response)
        built == IF DOMAIN data # {} THEN QuoteDetails(data) ELSE Raised("fallthrough")
    IN IF built.exc = "none" THEN built ELSE Returned(DefaultQuoteDetails)

\* Variant: the DECISION literal is looked for in the response as written,
\* without upper().
_parse_customer_decision_case_sensitive(response) ==
    LET data == _extract_json_from_response(response)
        hasNL == \E i \in 1..Len(response) : response[i] = NL
        second == IF hasNL THEN split(response)[2] ELSE <<>>
        built ==
            IF DOMAIN data # {} /\ "decision" \in DOMAIN data
            THEN CustomerDecision(data)
            ELSE IF Contains(response, "DECISION: APPROVE")
            THEN Returned([decision |-> <<W("APPROVE")>>,
                           reason |-> IF hasNL THEN second ELSE <<W("Approved")>>])
            ELSE IF Contains(response, "DECISION: DECLINE")
            THEN Returned([decision |-> <<W("DECLINE")>>,
                           reason |-> IF hasNL THEN second ELSE <<W("Declined")>>])
            ELSE Raised("fallthrough")
    IN IF built.exc = "none" THEN built ELSE Returned(DefaultCustomerDecision)

\* Variant: the DECISION literal is tried before the structured payload.
_parse_customer_decision_literal_first(response) ==
    LET data == _extract_json_from_response(response)
        hasNL == \E i \in 1..Len(response) : response[i] = NL
        second == IF hasNL THEN split(response)[2] ELSE <<>>
        built ==
            IF Contains(upper(response), "DECISION: APPROVE")
            THEN Returned([decision |-> <<W("APPROVE")>>,
                           reason |-> IF hasNL THEN second ELSE <<W("Approved")>>])
            ELSE IF Contains(upper(response), "DECISION: DECLINE")
            THEN Returned([decision |-> <<W("DECLINE")>>,
                           reason |-> IF hasNL THEN second ELSE <<W("Declined")>>])
            ELSE IF DOMAIN data # {} /\ "decision" \in DOMAIN data
            THEN CustomerDecision(data)
            ELSE Raised("fallthrough")
    IN IF built.exc = "none" THEN built ELSE Returned(DefaultCustomerDecision)

\* Variant: the reason is the line after the first line that holds the
\* DECISION literal.
_parse_customer_decision_following(response) ==
    LET data == _extract_json_from_response(response)
        lines == split(response)
        holds(i) == \/ Contains(upper(lines[i]), "DECISION: APPROVE")
                    \/ Contains(upper(lines[i]), "DECISION: DECLINE")
        at == CHOOSE i \in 1..Len(lines) :
                  holds(i) /\ \A h \in 1..(i - 1) : ~holds(h)
        built ==
            IF DOMAIN data # {} /\ "decision" \in DOMAIN data
            THEN CustomerDecision(data)
            ELSE IF Contains(upper(response), "DECISION: APPROVE")
            THEN Returned([decision |-> <<W("APPROVE")>>,
                           reason |-> IF at < Len(lines) THEN lines[at + 1]
                                      ELSE <<W("Approved")>>])
            ELSE IF Contains(upper(response), "DECISION: DECLINE")
            THEN Returned([decision |-> <<W("DECLINE")>>,
                           reason |-> IF at < Len(lines) THEN lines[at + 1]
                                      ELSE <<W("Declined")>>])
            ELSE Raised("fallthrough")
    IN IF built.exc = "none" THEN built ELSE Returned(DefaultCustomerDecision)

_parse_customer_decision(response) ==
    LET data == _extract_json_from_response(response)
        hasNL == \E i \in 1..Len(response) : response[i] = NL
        second == IF hasNL THEN split(response)[2] ELSE <<>>
        built ==
            IF DOMAIN data # {} /\ "decision" \in DOMAIN data
            THEN CustomerDecision(data)
            ELSE IF Contains(upper(response), "DECISION: APPROVE")
            THEN Returned([decision |-> <<W("APPROVE")>>,
                           reason |-> IF hasNL THEN second ELSE <<W("Approved")>>])
            ELSE IF Contains(upper(response), "DECISION: DECLINE")
            THEN Returned([decision |-> <<W("DECLINE")>>,
                           reason |-> IF hasNL THEN second ELSE <<W("Declined")>>])
            ELSE Raised("fallthrough")
    IN IF built.exc = "none" THEN built ELSE Returned(DefaultCustomerDecision)

_parse_fulfillment_response(response) ==
    LET data == _extract_json_from_response(response)
        built == IF DOMAIN data # {} THEN FulfillmentReceipt(data) ELSE Raised("fallthrough")
    IN IF built.exc = "none" THEN built ELSE Returned(DefaultFulfillmentReceipt)

\* ------------------------------------------------------- participants' texts
\* {"k1": v1, "k2": v2, ...} as the participant writes it.
RECURSIVE Members(_)
Members(ms) ==
    IF Len(ms) = 0 THEN <<>>
    ELSE IF Len(ms) = 1 THEN <<ms[1]>>
    ELSE <<ms[1], COMMA>> \o Members(Tail(ms))

Obj(ms) == <<LB>> \o Members(ms) \o <<RB>>

\* Every concatenation of at most n chunks.
RECURSIVE TextsOf(_, _)
TextsOf(chunks, n) ==
    IF n = 0 THEN {<<>>}
    ELSE LET shorter == TextsOf(chunks, n - 1)
         IN shorter \cup {txt \o c : txt \in shorter, c \in chunks}

ReceiptObj(status, tid, date) ==
    Obj(<<M("status", JStr(status)),
          M("transaction_id", JStr(tid)),
          M("delivery_date", JStr(date))>>)

\* What the Inventory participant may answer: the JSON of its final_answer
\* tool, with or without a restock date, an incomplete payload, prose.
InventoryChunks ==
    { Obj(<<M("items", JDict([n \in {"A4"} |-> JNum(500)])),
            M("low_stock", JList(<<>>)),
            M("reorder_required", JBool(FALSE))>>),
      Obj(<<M("items", JDict([n \in {"A4"} |-> JNum(20)])),
            M("low_stock", JList(<<"A4">>)),
            M("reorder_required", JBool(TRUE)),
            M("restock_date", JStr(<<W("2025-01-10")>>))>>),
      Obj(<<M("reorder_required", JBool(FALSE))>>),
      Obj(<<M("low_stock", JList(<<"A4">>)),
            M("reorder_required", JBool(TRUE)),
            M("restock_date", JStr(<<W("2025-01-10")>>))>>),
      <<W("All items are in stock")>> }

\* What the Pricing participant may answer.
QuoteChunks ==
    { Obj(<<M("total_price", JNum(250)),
            M("itemized_breakdown", JList(<<"A4 x 50">>)),
            M("discount_applied", JStr(<<W("0%")>>))>>),
      Obj(<<M("total_price", JStr(<<W("250 dollars")>>))>>),
      <<W("The quote is 250 dollars")>> }

\* What the Decision participant may answer: the DECISION line in either
\* case, a reason line, the JSON form with or without its reason, in upper or
\* lower case, and text that quotes a receipt.
DecisionChunks ==
    { <<NL>>,
      <<W("DECISION: APPROVE")>>,
      <<W("Decision: Decline")>>,
      <<W("price is fair")>>,
      Obj(<<M("decision", JStr(<<W("APPROVE")>>)),
            M("reason", JStr(<<W("price is fair")>>))>>),
      Obj(<<M("decision", JStr(<<W("DECLINE")>>)),
            M("reason", JStr(<<W("too expensive")>>))>>),
      Obj(<<M("decision", JStr(<<W("approve")>>)),
            M("reason", JStr(<<W("price is fair")>>))>>),
      Obj(<<M("decision", JStr(<<W("APPROVE")>>))>>),
      ReceiptObj(<<W("success")>>, <<W("1001")>>, <<W("2025-01-05")>>),
      ReceiptObj(<<W("error")>>, <<W("N/A")>>, <<W("TBD")>>) }

\* What the parsers are handed when called on their own: the Decision
\* participant's chunks, lone braces, and a well-formed Inventory and Pricing
\* payload.
ParseChunks ==
    DecisionChunks \cup
    { <<LB>>, <<RB>>,
      Obj(<<M("items", JDict([n \in {"A4"} |-> JNum(500)])),
            M("low_stock", JList(<<>>)),
            M("reorder_required", JBool(FALSE))>>),
      Obj(<<M("total_price", JNum(250)),
            M("itemized_breakdown", JList(<<"A4 x 50">>)),
            M("discount_applied", JStr(<<W("0%")>>))>>) }

\* Quotes of no amount and of an amount below zero, as the Pricing
\* participant may word a credit.
SignedQuoteTexts ==
    { Obj(<<M("total_price", JNum(n)),
            M("itemized_breakdown", JList(<<"A4 x 50">>)),
            M("discount_applied", JStr(<<W("0%")>>))>>) : n \in {0, -250} }

InventoryTexts == TextsOf(InventoryChunks, 1)
QuoteTexts == TextsOf(QuoteChunks, 1)
DecisionTexts == TextsOf(DecisionChunks, MaxChunks)
ParseTexts == TextsOf(ParseChunks, MaxChunks)

\* str(e) of the exception a participant call raises.
ErrorTexts == {<<W("Connection error.")>>, <<W("Rate limit reached")>>}

Requests == {<<W("Need 50 reams of A4")>>}
\* A later call may bring another request.
LaterRequests == Requests \cup {<<W("Need 50 reams of A4, urgently")>>}
RequestDates == {<<>>, <<W("2025-04-01")>>}
\* datetime.now().strftime("%Y-%m-%d")
Today == <<W("2026-01-01")>>
\* The day of a later call.
Days == {Today, <<W("2026-01-02")>>}
Items == {"A4"}

\* ------------------------------------------------------- transactions store
\* The transactions table as init_database leaves it: the opening cash row
\* (a sale of no item) and one stock order per inventory item.
SeedTransactions ==
    <<[item_name |-> "None", transaction_type |-> "sales", units |-> 0],
      [item_name |-> "A4", transaction_type |-> "stock_orders", units |-> SeedStock]>>

RECURSIVE SumUnits(_, _, _)
SumUnits(txs, item, type) ==
    IF Len(txs) = 0 THEN 0
    ELSE (IF txs[1].item_name = item /\ txs[1].transaction_type = type
          THEN txs[1].units ELSE 0) + SumUnits(Tail(txs), item, type)

\* tools/utils.py get_stock_level: units ordered minus units sold.
get_stock_level(txs, item) ==
    SumUnits(txs, item, "stock_orders") - SumUnits(txs, item, "sales")

\* What the database may do to one create_transaction call: both statements
\* run on one connection, the read-back runs on another connection (whose
\* last_insert_rowid() is 0), the insert fails, the read-back fails.
DbOutcomes == {"ok", "other_connection", "insert_fails", "readback_fails"}

\* Variant: the transaction type is compared without regard to case.
ValidType_AnyCase(transaction_type) ==
    transaction_type \in {"stock_orders", "sales", "Sales"}

\* Line 259.
ValidType(transaction_type) == transaction_type \in {"stock_orders", "sales"}

create_transaction(txs, item_name, transaction_type, quantity, db) ==
    IF ~ValidType(transaction_type)
    THEN [txs |-> txs, out |-> Raised("ValueError")]
    ELSE IF db = "insert_fails"
    THEN [txs |-> txs, out |-> Raised("OperationalError")]
    ELSE LET inserted == Append(txs, [item_name |-> item_name,
                                      transaction_type |-> transaction_type,
                                      units |-> quantity])
         IN IF db = "readback_fails"
            THEN [txs |-> inserted, out |-> Raised("OperationalError")]
            ELSE [txs |-> inserted,
                  out |-> Returned(IF db = "ok" THEN Len(inserted) ELSE 0)]

\* Variant: a sale of the whole stock is rejected too.
create_order_fulfillment_tool_strict(txs, item_name, quantity, db) ==
    LET current_stock == get_stock_level(txs, item_name)
    IN IF current_stock <= quantity
       THEN [txs |-> txs, ret |-> [status |-> "error", transaction_id |-> "N/A"]]
       ELSE LET c == create_transaction(txs, item_name, "sales", quantity, db)
            IN IF c.out.exc = "none"
               THEN [txs |-> c.txs,
                     ret |-> [status |-> "success",
                              transaction_id |-> ToString(c.out.val)]]
               ELSE [txs |-> c.txs,
                     ret |-> [status |-> "error", transaction_id |-> "N/A"]]

create_order_fulfillment_tool(txs, item_name, quantity, db) ==
    LET current_stock == get_stock_level(txs, item_name)
    IN IF current_stock < quantity
       THEN [txs |-> txs, ret |-> [status |-> "error", transaction_id |-> "N/A"]]
       ELSE LET c == create_transaction(txs, item_name, "sales", quantity, db)
            IN IF c.out.exc = "none"
               THEN [txs |-> c.txs,
                     ret |-> [status |-> "success",
                              transaction_id |-> ToString(c.out.val)]]
               ELSE [txs |-> c.txs,
                     ret |-> [status |-> "error", transaction_id |-> "N/A"]]

\* ------------------------------------------------------------- quote tool
\* The inventory table as init_database leaves it: one row per stocked item,
\* unit prices in cents.
InventoryTable ==
    <<[item_name |-> "A4", unit_price |-> 5],
      [item_name |-> "Cardstock", unit_price |-> 15]>>

\* text.split(",")
RECURSIVE split_comma(_)
split_comma(text) ==
    IF \A i \in 1..Len(text) : text[i] # COMMA THEN <<text>>
    ELSE LET i == CHOOSE j \in 1..Len(text) :
                      text[j] = COMMA /\ \A h \in 1..(j - 1) : text[h] # COMMA
         IN <<SubSeq(text, 1, i - 1)>> \o split_comma(SubSeq(text, i + 1, Len(text)))

\* text.strip()
RECURSIVE strip(_)
strip(text) ==
    IF Len(text) = 0 THEN text
    ELSE IF text[1] = SP THEN strip(Tail(text))
    ELSE IF text[Len(text)] = SP THEN strip(SubSeq(text, 1, Len(text) - 1))
    ELSE text

\* int(text), of a stripped text: a numeral, or ValueError.
IsInt(text) == Len(text) = 1 /\ text[1].t = "d"
int(text) == text[1].n

\* Lines 60-67, the discount in percent.
bulk_discount_inclusive(qty) ==
    IF qty >= 1000 THEN 15
    ELSE IF qty >= 500 THEN 10
    ELSE IF qty >= 100 THEN 5
    ELSE 0

bulk_discount(qty) ==
    IF qty > 1000 THEN 15
    ELSE IF qty > 500 THEN 10
    ELSE IF qty > 100 THEN 5
    ELSE 0

\* inventory_df[inventory_df["item_name"] == item]
RowsOf(item) == SelectSeq(InventoryTable, LAMBDA row : <<W(row.item_name)>> = item)

\* Lines 69-81, one line of the quote.  Amounts are in hundredths of a cent:
\* unit_price * (1 - discount) * qty.
quote_line(item, qty) ==
    LET unit_price == RowsOf(item)[1].unit_price
        discount == bulk_discount(qty)
    IN [item |-> item, quantity |-> qty, unit_price |-> unit_price,
        discount |-> ToString(discount) \o "%",
        item_total |-> unit_price * (100 - discount) * qty]

\* Variant: an item the inventory does not hold is quoted at no price.
RECURSIVE quote_loop_all(_, _, _)
quote_loop_all(item_list, qty_list, acc) ==
    IF Len(item_list) = 0 \/ Len(qty_list) = 0 THEN acc
    ELSE LET item == item_list[1]
             qty == qty_list[1]
             line == IF Len(RowsOf(item)) # 0 THEN quote_line(item, qty)
                     ELSE [item |-> item, quantity |-> qty, unit_price |-> 0,
                           discount |-> "0%", item_total |-> 0]
         IN quote_loop_all(Tail(item_list), Tail(qty_list),
                           [quote_items |-> Append(acc.quote_items, line),
                            total_price |-> acc.total_price + line.item_total])

\* Lines 52-81: the loop over zip(item_list, qty_list).
RECURSIVE quote_loop(_, _, _)
quote_loop(item_list, qty_list, acc) ==
    IF Len(item_list) = 0 \/ Len(qty_list) = 0 THEN acc
    ELSE LET item == item_list[1]
             qty == qty_list[1]
         IN quote_loop(Tail(item_list), Tail(qty_list),
                       IF Len(RowsOf(item)) # 0
                       THEN LET line == quote_line(item, qty)
                            IN [quote_items |-> Append(acc.quote_items, line),
                                total_price |-> acc.total_price + line.item_total]
                       ELSE acc)

StripAll(texts) == [i \in 1..Len(texts) |-> strip(texts[i])]

\* Lines 45-87.  db is what the read of the inventory table does.
generate_quote_tool(items, quantities, db) ==
    LET item_list == StripAll(split_comma(items))
        qtys == StripAll(split_comma(quantities))
    IN IF \E i \in 1..Len(qtys) : ~IsInt(qtys[i])
       THEN Raised("ValueError")
       ELSE IF db # "ok" THEN Raised("OperationalError")
       ELSE LET qty_list == [i \in 1..Len(qtys) |-> int(qtys[i])]
                quote == quote_loop(item_list, qty_list,
                                    [quote_items |-> <<>>, total_price |-> 0])
            IN Returned([quote_items |-> quote.quote_items,
                         total_amount |-> quote.total_price,
                         quote_date |-> Today])

\* The arguments of generate_quote_tool: lists of item names and of
\* quantities, joined by commas, with or without a space after each comma.
ItemNames == {<<W("A4")>>, <<W("Cardstock")>>, <<W("Glitter")>>}
Quantities == {1, 100, 101, 500, 501, 1000, 1001}
QuantityWords == {<<D(q)>> : q \in Quantities} \cup {<<W("many")>>}
RECURSIVE Joined(_, _, _)
Joined(words, seps, n) ==
    IF n = 1 THEN words
    ELSE words \cup {l \o sep \o w : l \in Joined(words, seps, n - 1),
                                      w \in words, sep \in seps}
ItemsTexts == Joined(ItemNames, {<<COMMA>>, <<COMMA, SP>>}, MaxItems)
QuantitiesTexts == Joined(QuantityWords, {<<COMMA, SP>>}, MaxItems)

\* The Fulfillment participant's final answer after its tool call: the JSON
\* receipt its description asks for (the status in either case, alone or
\* after a sentence), a receipt without its delivery date, or prose.
FulfillmentTexts(ret, date) ==
    LET status == <<W(ret.status)>>
        tid == <<W(ret.transaction_id)>>
    IN { ReceiptObj(status, tid, date),
         ReceiptObj(IF ret.status = "success" THEN <<W("SUCCESS")>> ELSE status,
                    tid, date),
         <<W("Order processed."), NL>> \o ReceiptObj(status, tid, date),
         Obj(<<M("status", JStr(status))>>),
         <<W("Order processed.")>> }

\* ------------------------------------------------------------------- state
VARIABLES
    pc,                    \* where process_customer_request stands
    customer_request,      \* its arguments
    request_date,
    log,                   \* the participant calls made, returned and raised
    inventory_data,        \* the parsed stage records (NotSet before the stage)
    quote_data,
    customer_decision,
    inventory_task,        \* what each participant is handed: line 185,
    quote_context,         \* line 192,
    customer_context,      \* line 200,
    fulfillment_context,   \* and lines 209-214
    fulfillment_response,
    fulfillment_data,
    result,                \* the returned (final_response, fulfilled, fulfillment_details)
    transactions,          \* the transactions table
    tool,                  \* what the Fulfillment participant's tool call returned;
                           \* for a direct call, its arguments and the database's
                           \* part as well
    ptext,                 \* parser harness: the text, and what each parser made of it
    pout,
    callers,               \* direct callers of create_transaction: where each stands
    rowid,                 \* last_insert_rowid() of each pooled connection
    sellers,               \* concurrent calls of create_order_fulfillment_tool:
                           \* where each stands, and the stock it looked up
    inputs,                \* what the call in progress was given: its arguments,
                           \* then what each participant call returned or raised
    previous               \* the inputs and the result of the call made before it
                           \* on this orchestrator (NotSet on the first call)

vars == <<pc, customer_request, request_date, log, inventory_data, quote_data,
          customer_decision, inventory_task, quote_context, customer_context,
          fulfillment_context, fulfillment_response,
          fulfillment_data, result, transactions, tool, ptext, pout,
          callers, rowid, sellers, inputs, previous>>

harness == <<ptext, pout>>
store == <<callers, rowid, sellers>>
history == <<inputs, previous>>
Callers == 1..MaxCallers
Conns == 1..MaxConns
TransactionTypes == {"stock_orders", "sales", "refund", "Sales"}
records == <<inventory_data, quote_data, customer_decision, inventory_task,
             quote_context, customer_context, fulfillment_context,
             fulfillment_response, fulfillment_data>>
contexts == <<inventory_task, quote_context, customer_context>>

NotSet == [unset |-> TRUE]
\* A local that holds a text, before its assignment.
NoText == <<[t |-> "unassigned"]>>
Called(who) == [ev |-> "call", who |-> who]
Back(who) == [ev |-> "return", who |-> who]
Threw(who, e) == [ev |-> "raise", who |-> who, e |-> e]

\* A stage record as the f-strings print it.
Fmt(rec) == [t |-> "fmt", v |-> rec]

\* The inputs of a call of process_customer_request.
Given(request, date) == [customer_request |-> request, request_date |-> date]
Gave(who, response) == [who |-> who, response |-> response]
Failed(who, e) == [who |-> who, raised |-> e]
\* The history of a call is kept or not.  A call that is followed by a second
\* one is a call whose history was kept, and the responses of such a call are
\* these: a StockStatus with a restock date or prose, a PriceQuote or prose,
\* a Decision response of one chunk.  A call whose history is not kept is
\* given any response.
KeptTexts == TextsOf(DecisionChunks, 1)
KeptInventoryTexts ==
    { Obj(<<M("items", JDict([n \in {"A4"} |-> JNum(20)])),
            M("low_stock", JList(<<"A4">>)),
            M("reorder_required", JBool(TRUE)),
            M("restock_date", JStr(<<W("2025-01-10")>>))>>),
      <<W("All items are in stock")>> }
KeptQuoteTexts ==
    { Obj(<<M("total_price", JNum(250)),
            M("itemized_breakdown", JList(<<"A4 x 50">>)),
            M("discount_applied", JStr(<<W("0%")>>))>>),
      <<W("The quote is 250 dollars")>> }
KeptOf(who, texts) ==
    CASE who = "Inventory" -> KeptInventoryTexts
      [] who = "Pricing" -> KeptQuoteTexts
      [] who = "Decision" -> KeptTexts
      [] OTHER -> texts
Keep(input) == IF inputs = <<>> THEN <<>> ELSE Append(inputs, input)
AllKept == inputs # <<>>
\* A second call on the orchestrator is the first one over again: the same
\* arguments, and each participant call ends as it did in the first.
Replays(input) ==
    previous # NotSet =>
        /\ Len(previous.inputs) > Len(inputs)
        /\ previous.inputs[Len(inputs) + 1] = input
\* What a participant call may return: any of its texts on a first call.  On
\* a second call the Inventory participant may answer anything again, and the
\* others return the text they returned at this point of the first call.
Answers(who, texts) ==
    IF previous = NotSet
    THEN IF AllKept THEN KeptOf(who, texts) ELSE texts
    ELSE IF who = "Inventory" THEN KeptInventoryTexts
    ELSE IF Len(previous.inputs) <= Len(inputs) THEN {}
    ELSE LET was == previous.inputs[Len(inputs) + 1]
         IN IF "response" \in DOMAIN was /\ was.who = who
            THEN {was.response} \cap texts
            ELSE {}

\* Variant: the message leaves the error text out.
ErrorResult_NoText(e) ==
    [final_response |-> <<W("ERROR in order processing: ")>>,
     fulfilled |-> FALSE,
     fulfillment_details |-> e]

\* Lines 266-269: the except branch of process_customer_request.
ErrorResult(e) ==
    [final_response |-> <<W("ERROR in order processing: ")>> \o e,
     fulfilled |-> FALSE,
     fulfillment_details |-> e]

\* Lines 233-262: the four-stage summary.
Summary(inv, quote, dec, receipt) ==
    <<W("ORDER PROCESSING COMPLETE"),
      W("STEP 1 - INVENTORY STATUS"), Fmt(inv),
      W("STEP 2 - PRICING QUOTE"), Fmt(quote),
      W("STEP 3 - CUSTOMER DECISION"), Fmt(dec),
      W("STEP 4 - ORDER FULFILLMENT"), Fmt(receipt),
      W("END OF ORDER PROCESSING")>>

\* Variant: the orchestrator remembers that it has handled an order and
\* fulfils none after it.
Reconcile_OncePerInstance(decision, status) ==
    /\ previous = NotSet
    /\ IF lower(status) = <<W("success")>>
       THEN TRUE
       ELSE upper(decision) = <<W("APPROVE")>> /\ lower(status) # <<W("pending")>>

\* Variant: only a success receipt counts as fulfilled.
Reconcile_SuccessOnly(decision, status) == lower(status) = <<W("success")>>

\* Lines 225-229: whether the order counts as fulfilled.
Reconcile(decision, status) ==
    IF lower(status) = <<W("success")>>
    THEN TRUE
    ELSE upper(decision) = <<W("APPROVE")>> /\ lower(status) # <<W("pending")>>

\* Variant: the success detail leaves the delivery date out.
Details_NoDelivery(receipt) ==
    IF lower(receipt.status) = <<W("success")>>
    THEN <<W("Order fulfilled with Transaction ID: ")>> \o receipt.transaction_id
    ELSE <<W("Status: ")>> \o receipt.status
            \o <<W(", Transaction: ")>> \o receipt.transaction_id

\* Lines 227 and 230: the detail string.
Details(receipt) ==
    IF lower(receipt.status) = <<W("success")>>
    THEN <<W("Order fulfilled with Transaction ID: ")>> \o receipt.transaction_id
            \o <<W(", Delivery: ")>> \o receipt.delivery_date
    ELSE <<W("Status: ")>> \o receipt.status
            \o <<W(", Transaction: ")>> \o receipt.transaction_id

\* Variant: the decision is compared as written, without upper().
IsApproved_Exact(decision) == decision = <<W("APPROVE")>>

\* Line 207: the branch on the decision.
IsApproved(decision) == upper(decision) = <<W("APPROVE")>>

\* Line 218: the stand-in for the Fulfillment participant's answer.
DeclinedResponse(reason) == <<W("Customer declined: ")>> \o reason

\* Variant: a receipt of status "error" ends the run as a raise does.
Complete_ErrorAborts(inv, quote, dec, response) ==
    LET parsed == _parse_fulfillment_response(response)
    IN IF parsed.exc # "none"
       THEN [receipt |-> NotSet, result |-> ErrorResult(<<W(parsed.exc)>>)]
       ELSE IF lower(parsed.val.status) = <<W("error")>>
       THEN [receipt |-> parsed.val, result |-> ErrorResult(parsed.val.status)]
       ELSE [receipt |-> parsed.val,
             result |-> [final_response |-> Summary(inv, quote, dec, parsed.val),
                         fulfilled |-> Reconcile(dec.decision, parsed.val.status),
                         fulfillment_details |-> Details(parsed.val)]]

\* Lines 220-264: parse the fulfillment response, reconcile, summarise.
Complete(inv, quote, dec, response) ==
    LET parsed == _parse_fulfillment_response(response)
    IN IF parsed.exc # "none"
       THEN [receipt |-> NotSet, result |-> ErrorResult(<<W(parsed.exc)>>)]
       ELSE [receipt |-> parsed.val,
             result |-> [final_response |-> Summary(inv, quote, dec, parsed.val),
                         fulfilled |-> Reconcile(dec.decision, parsed.val.status),
                         fulfillment_details |-> Details(parsed.val)]]

\* ------------------------------------------------------------------ actions
Init ==
    /\ pc = "idle"
    /\ customer_request = <<>>
    /\ request_date = <<>>
    /\ log = <<>>
    /\ inventory_data = NotSet
    /\ quote_data = NotSet
    /\ customer_decision = NotSet
    /\ inventory_task = NoText
    /\ quote_context = NoText
    /\ customer_context = NoText
    /\ fulfillment_context = NotSet
    /\ fulfillment_response = NoText
    /\ fulfillment_data = NotSet
    /\ result = NotSet
    /\ transactions = SeedTransactions
    /\ tool = NotSet
    /\ ptext = <<>>
    /\ pout = NotSet
    /\ callers = [c \in Callers |-> [at |-> "start"]]
    /\ sellers = [c \in Callers |-> [at |-> "start"]]
    /\ rowid = [k \in Conns |-> 0]
    /\ inputs = <<>>
    /\ previous = NotSet

\* Variant: the Decision participant is shown the request as well.
CustomerContext_WithRequest(quote) ==
    <<W("Review this quote and decide:"), NL>> \o customer_request
        \o <<NL, W("Total Price: $"), Fmt(quote.total_price), NL,
             W("Items: "), Fmt(quote.itemized_breakdown), NL, W("Discount: ")>>
        \o quote.discount_applied

\* Line 200.
CustomerContext(quote) ==
    <<W("Review this quote and decide:"), NL,
      W("Total Price: $"), Fmt(quote.total_price), NL,
      W("Items: "), Fmt(quote.itemized_breakdown), NL, W("Discount: ")>>
        \o quote.discount_applied

\* Line 192.
QuoteContext(request, inv) ==
    <<W("Customer request: ")>> \o request
        \o <<NL, W("Inventory Status: "), Fmt(inv)>>

\* Lines 160-185: the call of process_customer_request, up to the call of
\* the Inventory participant.  Its locals start unassigned.  Once a call has
\* returned, the orchestrator may be called a second time.
ProcessCustomerRequest ==
    /\ pc = "idle" \/ (pc = "done" /\ previous = NotSet /\ AllKept)
    /\ previous' = IF pc = "done"
                   THEN [inputs |-> inputs, result |-> result,
                         inventory_data |-> inventory_data, quote_data |-> quote_data,
                         customer_context |-> customer_context]
                   ELSE previous
    /\ \E request \in LaterRequests, date \in RequestDates, now \in Days,
          kept \in BOOLEAN :
        /\ pc = "idle" => now = Today /\ request \in Requests
        /\ pc = "done" => kept /\ inputs[1].request_date = date
        /\ customer_request' = request
        /\ inventory_task' = request
        /\ request_date' = IF date = <<>> THEN now ELSE date
        /\ inputs' = IF kept THEN <<Given(request, date)>> ELSE <<>>
    /\ log' = <<Called("Inventory")>>
    /\ pc' = "inventory"
    /\ inventory_data' = NotSet
    /\ quote_data' = NotSet
    /\ customer_decision' = NotSet
    /\ quote_context' = NoText
    /\ customer_context' = NoText
    /\ fulfillment_context' = NotSet
    /\ fulfillment_response' = NoText
    /\ fulfillment_data' = NotSet
    /\ result' = NotSet
    /\ tool' = NotSet
    /\ UNCHANGED <<transactions, harness>>
    /\ UNCHANGED store

\* Lines 266-269 after a stage parser raised: the except branch.
Abort(who, exc) ==
    /\ log' = Append(log, Back(who))
    /\ result' = ErrorResult(<<W(exc)>>)
    /\ pc' = "done"

\* Lines 185-193: the Inventory participant answers; parse, call Pricing.
InventoryReturns ==
    /\ pc = "inventory"
    /\ \E response \in Answers("Inventory", InventoryTexts) :
        /\ inputs' = Keep(Gave("Inventory", response))
        /\ LET parsed == _parse_inventory_response(response)
           IN IF parsed.exc # "none"
              THEN /\ Abort("Inventory", parsed.exc)
                   /\ UNCHANGED <<inventory_data, quote_context>>
              ELSE /\ inventory_data' = parsed.val
                   /\ quote_context' = QuoteContext(customer_request, parsed.val)
                   /\ log' = log \o <<Back("Inventory"), Called("Pricing")>>
                   /\ pc' = "quote"
                   /\ UNCHANGED result
    /\ UNCHANGED <<customer_request, request_date, quote_data, customer_decision,
                   inventory_task, customer_context, fulfillment_context, fulfillment_response, fulfillment_data,
                   transactions, tool, harness>>
    /\ UNCHANGED <<store, previous>>

\* Lines 193-201: the Pricing participant answers; parse, call Decision.
QuoteReturns ==
    /\ pc = "quote"
    /\ \E response \in Answers("Pricing", QuoteTexts) :
        /\ inputs' = Keep(Gave("Pricing", response))
        /\ LET parsed == _parse_quote_response(response)
           IN IF parsed.exc # "none"
              THEN /\ Abort("Pricing", parsed.exc)
                   /\ UNCHANGED <<quote_data, customer_context>>
              ELSE /\ quote_data' = parsed.val
                   /\ customer_context' = CustomerContext(parsed.val)
                   /\ log' = log \o <<Back("Pricing"), Called("Decision")>>
                   /\ pc' = "customer"
                   /\ UNCHANGED result
    /\ UNCHANGED <<customer_request, request_date, inventory_data, customer_decision,
                   inventory_task, quote_context, fulfillment_context, fulfillment_response, fulfillment_data,
                   transactions, tool, harness>>
    /\ UNCHANGED <<store, previous>>

\* Variant: a restock date of no characters is passed on as it is.
DeliveryDate_EmptyKept(restock_date, date) ==
    IF restock_date = None THEN date ELSE restock_date

\* Line 214: inventory_data.restock_date or request_date.
DeliveryDate(restock_date, date) ==
    IF restock_date \in {None, <<>>} THEN date ELSE restock_date

\* Lines 201-264: the Decision participant answers; parse, then either call
\* the Fulfillment participant or stand in for it and finish.
CustomerProceeds(parsed) ==
    IF parsed.exc # "none"
    THEN /\ Abort("Decision", parsed.exc)
         /\ UNCHANGED <<customer_decision, fulfillment_context,
                        fulfillment_response, fulfillment_data>>
    ELSE IF IsApproved(parsed.val.decision)
    THEN /\ customer_decision' = parsed.val
         /\ fulfillment_context' =
               [request |-> customer_request,
                total_price |-> quote_data.total_price,
                items |-> quote_data.itemized_breakdown,
                request_date |-> request_date,
                delivery_date |->
                    DeliveryDate(inventory_data.restock_date, request_date)]
         /\ log' = log \o <<Back("Decision"), Called("Fulfillment")>>
         /\ pc' = "fulfillment"
         /\ UNCHANGED <<fulfillment_response, fulfillment_data, result>>
    ELSE LET response4 == DeclinedResponse(parsed.val.reason)
             end == Complete(inventory_data, quote_data, parsed.val, response4)
         IN /\ customer_decision' = parsed.val
            /\ fulfillment_response' = response4
            /\ fulfillment_data' = end.receipt
            /\ result' = end.result
            /\ log' = Append(log, Back("Decision"))
            /\ pc' = "done"
            /\ UNCHANGED fulfillment_context

\* What the Decision parser makes of the Decision participant's texts.
ParsedDecisionTexts == {_parse_customer_decision(response) : response \in DecisionTexts}

\* A call whose history is not kept goes on with what the parser made of the
\* response, whichever response it was.
CustomerReturns ==
    /\ pc = "customer"
    /\ IF AllKept
       THEN \E response \in Answers("Decision", DecisionTexts) :
               /\ inputs' = Keep(Gave("Decision", response))
               /\ CustomerProceeds(_parse_customer_decision(response))
       ELSE /\ inputs' = inputs
            /\ \E parsed \in ParsedDecisionTexts : CustomerProceeds(parsed)
    /\ UNCHANGED <<customer_request, request_date, inventory_data, quote_data,
                   contexts, transactions, tool, harness>>
    /\ UNCHANGED <<store, previous>>

\* The Fulfillment participant, as its description tells it, records the sale
\* with create_order_fulfillment_tool.
FulfillmentCallsTool ==
    /\ pc = "fulfillment"
    /\ tool = NotSet
    /\ \E item \in Items, quantity \in 1..MaxQty, db \in DbOutcomes :
        LET done == create_order_fulfillment_tool(transactions, item, quantity, db)
        IN /\ transactions' = done.txs
           /\ tool' = done.ret
    /\ UNCHANGED <<pc, customer_request, request_date, log, records, result, harness>>
    /\ UNCHANGED <<store, history>>

\* Lines 215-264: the Fulfillment participant answers; parse, reconcile,
\* summarise.
FulfillmentReturns ==
    /\ pc = "fulfillment"
    /\ tool # NotSet
    /\ \E response \in Answers("Fulfillment",
                            FulfillmentTexts(tool, fulfillment_context.delivery_date)) :
        /\ inputs' = Keep(Gave("Fulfillment", response))
        /\ LET end == Complete(inventory_data, quote_data, customer_decision, response)
           IN /\ fulfillment_response' = response
              /\ fulfillment_data' = end.receipt
              /\ result' = end.result
    /\ log' = Append(log, Back("Fulfillment"))
    /\ pc' = "done"
    /\ UNCHANGED <<customer_request, request_date, inventory_data, quote_data,
                   customer_decision, contexts, fulfillment_context, transactions,
                   tool, harness>>
    /\ UNCHANGED <<store, previous>>

InFlight ==
    CASE pc = "inventory" -> "Inventory"
      [] pc = "quote" -> "Pricing"
      [] pc = "customer" -> "Decision"
      [] pc = "fulfillment" -> "Fulfillment"
      [] OTHER -> "nobody"

\* Variant: a call that raises is made again.
ParticipantRaises_Retry ==
    /\ pc \in {"inventory", "quote", "customer", "fulfillment"}
    /\ \E e \in ErrorTexts :
        log' = log \o <<Threw(InFlight, e), Called(InFlight)>>
    /\ UNCHANGED <<pc, customer_request, request_date, records, result,
                   transactions, tool, harness>>
    /\ UNCHANGED <<store, history>>

\* Variant: what a participant call raises goes on to the caller of
\* process_customer_request.
ParticipantRaises_Propagates ==
    /\ pc \in {"inventory", "quote", "customer", "fulfillment"}
    /\ \E e \in ErrorTexts :
        /\ Replays(Failed(InFlight, e))
        /\ inputs' = Keep(Failed(InFlight, e))
        /\ log' = Append(log, Threw(InFlight, e))
    /\ pc' = "raised"
    /\ UNCHANGED <<customer_request, request_date, records, result, transactions,
                   tool, harness>>
    /\ UNCHANGED <<store, previous>>

\* Lines 266-269: the participant call in flight raises.
ParticipantRaises ==
    /\ pc \in {"inventory", "quote", "customer", "fulfillment"}
    /\ \E e \in ErrorTexts :
        /\ Replays(Failed(InFlight, e))
        /\ inputs' = Keep(Failed(InFlight, e))
        /\ result' = ErrorResult(e)
        /\ log' = Append(log, Threw(InFlight, e))
    /\ pc' = "done"
    /\ UNCHANGED <<customer_request, request_date, records, transactions, tool, harness>>
    /\ UNCHANGED <<store, previous>>

\* The parsers called on their own, on any text: each is a method of the
\* orchestrator that reads nothing but its argument.
ParseInventory ==
    /\ pc = "idle"
    /\ \E text \in ParseTexts \cup InventoryTexts :
        /\ ptext' = text
        /\ pout' = [parser |-> "inventory", out |-> _parse_inventory_response(text)]
    /\ pc' = "parsed"
    /\ UNCHANGED <<customer_request, request_date, log, records, result,
                   transactions, tool>>
    /\ UNCHANGED <<store, history>>

ParseQuote ==
    /\ pc = "idle"
    /\ \E text \in ParseTexts \cup SignedQuoteTexts :
        /\ ptext' = text
        /\ pout' = [parser |-> "quote", out |-> _parse_quote_response(text)]
    /\ pc' = "parsed"
    /\ UNCHANGED <<customer_request, request_date, log, records, result,
                   transactions, tool>>
    /\ UNCHANGED <<store, history>>

ParseDecision ==
    /\ pc = "idle"
    /\ \E text \in ParseTexts :
        /\ ptext' = text
        /\ pout' = [parser |-> "decision", out |-> _parse_customer_decision(text)]
    /\ pc' = "parsed"
    /\ UNCHANGED <<customer_request, request_date, log, records, result,
                   transactions, tool>>
    /\ UNCHANGED <<store, history>>

ParseFulfillment ==
    /\ pc = "idle"
    /\ \E text \in ParseTexts :
        /\ ptext' = text
        /\ pout' = [parser |-> "fulfillment", out |-> _parse_fulfillment_response(text)]
    /\ pc' = "parsed"
    /\ UNCHANGED <<customer_request, request_date, log, records, result,
                   transactions, tool>>
    /\ UNCHANGED <<store, history>>

\* Lines 91-109: the extractor called on its own, on any text.
ExtractJson ==
    /\ pc = "idle"
    /\ \E text \in ParseTexts :
        /\ ptext' = text
        /\ pout' = [parser |-> "extract",
                    out |-> Returned(JDict(_extract_json_from_response(text)))]
    /\ pc' = "extracted"
    /\ UNCHANGED <<customer_request, request_date, log, records, result,
                   transactions, tool>>
    /\ UNCHANGED <<store, history>>

\* create_order_fulfillment_tool called directly, on the store as
\* init_database leaves it.
CallFulfillmentTool ==
    /\ pc = "idle"
    /\ \E item \in Items, quantity \in 1..MaxQty, db \in DbOutcomes :
        LET done == create_order_fulfillment_tool(transactions, item, quantity, db)
        IN /\ transactions' = done.txs
           /\ tool' = [item_name |-> item, quantity |-> quantity, db |-> db,
                       ret |-> done.ret]
    /\ pc' = "tooled"
    /\ UNCHANGED <<customer_request, request_date, log, records, result, harness,
                   store, history>>

\* generate_quote_tool called directly.
CallQuoteTool ==
    /\ pc = "idle"
    /\ \E items \in ItemsTexts, quantities \in QuantitiesTexts,
          db \in {"ok", "read_fails"} :
        tool' = [items |-> items, quantities |-> quantities,
                 out |-> generate_quote_tool(items, quantities, db)]
    /\ pc' = "quoted"
    /\ UNCHANGED <<customer_request, request_date, log, records, result,
                   transactions, harness, store, history>>

\* create_transaction called directly, by one caller or by several at a time.
\* Lines 259-276: the validation and the insert, which to_sql runs and
\* commits on a connection of its own.
CreateTransactionInsert ==
    /\ pc \in {"idle", "store"}
    /\ \E c \in Callers, type \in TransactionTypes, k \in Conns, fails \in BOOLEAN :
        /\ callers[c].at = "start"
        /\ IF ~ValidType(type)
           THEN /\ callers' = [callers EXCEPT
                                  ![c] = [at |-> "raised", exc |-> "ValueError",
                                          type |-> type]]
                /\ UNCHANGED <<transactions, rowid>>
           ELSE IF fails
           THEN /\ callers' = [callers EXCEPT
                                  ![c] = [at |-> "raised", exc |-> "OperationalError",
                                          type |-> type]]
                /\ UNCHANGED <<transactions, rowid>>
           ELSE /\ transactions' = Append(transactions,
                                          [item_name |-> "A4", transaction_type |-> type,
                                           units |-> 1])
                /\ rowid' = [rowid EXCEPT ![k] = Len(transactions) + 1]
                /\ callers' = [callers EXCEPT
                                  ![c] = [at |-> "inserted", row |-> Len(transactions) + 1]]
    /\ pc' = "store"
    /\ UNCHANGED <<customer_request, request_date, log, records, result, tool, harness,
                   sellers, history>>

\* Lines 279-280: SELECT last_insert_rowid() on the connection the engine
\* hands out for it: one of the pooled connections, or a new one (0), whose
\* last insert is 0.
CreateTransactionReadBack ==
    /\ pc = "store"
    /\ \E c \in Callers, k \in Conns \cup {0}, fails \in BOOLEAN :
        /\ callers[c].at = "inserted"
        /\ callers' = [callers EXCEPT
                          ![c] = IF fails
                                 THEN [at |-> "raised", exc |-> "OperationalError",
                                       type |-> transactions[callers[c].row]
                                                    .transaction_type]
                                 ELSE [at |-> "returned", row |-> callers[c].row,
                                       id |-> IF k = 0 THEN 0 ELSE rowid[k]]]
    /\ UNCHANGED <<pc, customer_request, request_date, log, records, result,
                   transactions, tool, harness, rowid, sellers, history>>

\* create_order_fulfillment_tool called by several coordinators at a time,
\* each in a thread or process of its own.  Lines 54-56: the stock lookup, a
\* SELECT that get_stock_level runs and finishes before the tool goes on.
FulfillmentLooksUp ==
    /\ pc \in {"idle", "selling"}
    /\ \E c \in Callers, item \in Items, quantity \in 1..MaxQty :
        /\ sellers[c].at = "start"
        /\ sellers' = [sellers EXCEPT
                          ![c] = [at |-> "looked", item_name |-> item,
                                  quantity |-> quantity,
                                  current_stock |-> get_stock_level(transactions, item)]]
    /\ pc' = "selling"
    /\ UNCHANGED <<customer_request, request_date, log, records, result, transactions,
                   tool, harness, callers, rowid, history>>

\* Lines 58-87: the comparison of the quantity with the stock looked up, the
\* sale and the returned dict.
FulfillmentSells ==
    /\ pc = "selling"
    /\ \E c \in Callers, db \in DbOutcomes :
        /\ sellers[c].at = "looked"
        /\ IF sellers[c].current_stock < sellers[c].quantity
           THEN /\ sellers' = [sellers EXCEPT
                                  ![c] = [at |-> "returned", status |-> "error",
                                          quantity |-> sellers[c].quantity]]
                /\ UNCHANGED transactions
           ELSE LET made == create_transaction(transactions, sellers[c].item_name,
                                               "sales", sellers[c].quantity, db)
                IN /\ transactions' = made.txs
                   /\ sellers' = [sellers EXCEPT
                                     ![c] = [at |-> "returned",
                                             status |-> IF made.out.exc = "none"
                                                        THEN "success" ELSE "error",
                                             quantity |-> sellers[c].quantity]]
    /\ UNCHANGED <<pc, customer_request, request_date, log, records, result, tool,
                   harness, callers, rowid, history>>

Next ==
    \/ ProcessCustomerRequest
    \/ InventoryReturns
    \/ QuoteReturns
    \/ CustomerReturns
    \/ FulfillmentCallsTool
    \/ FulfillmentReturns
    \/ ParticipantRaises
    \/ ParseInventory
    \/ ParseQuote
    \/ ParseDecision
    \/ ParseFulfillment
    \/ ExtractJson
    \/ CallFulfillmentTool
    \/ CallQuoteTool
    \/ CreateTransactionInsert
    \/ CreateTransactionReadBack
    \/ FulfillmentLooksUp
    \/ FulfillmentSells

Spec == Init /\ [][Next]_vars

\* A participant call in flight returns or raises, and the Fulfillment
\* participant's tool call returns: a call of process_customer_request that
\* can go on does go on.
Proceeds ==
    \/ InventoryReturns
    \/ QuoteReturns
    \/ CustomerReturns
    \/ FulfillmentCallsTool
    \/ FulfillmentReturns
    \/ ParticipantRaises

\* One call of process_customer_request on a new orchestrator.
FirstCall == pc = "idle" /\ ProcessCustomerRequest

CallOnce ==
    \/ FirstCall
    \/ InventoryReturns
    \/ QuoteReturns
    \/ CustomerReturns
    \/ FulfillmentCallsTool
    \/ FulfillmentReturns
    \/ ParticipantRaises

LiveSpec == Init /\ [][CallOnce]_vars /\ WF_vars(Proceeds)

\* ----------------------------------------------------------------- readings
InLog(e) == \E i \in 1..Len(log) : log[i] = e
CallsOf(who) == Cardinality({i \in 1..Len(log) : log[i] = Called(who)})
NoRaise == \A i \in 1..Len(log) : log[i].ev # "raise"
StageOrder == <<"Inventory", "Pricing", "Decision", "Fulfillment">>
Approve == <<W("APPROVE")>>
Decline == <<W("DECLINE")>>
Success == <<W("success")>>
Pending == <<W("pending")>>
Error == <<W("error")>>
\* A sale was appended to the transactions table during this run.
SaleAppended ==
    \E i \in (Len(SeedTransactions) + 1)..Len(transactions) :
        transactions[i].transaction_type = "sales"
Decided == pc = "done" /\ customer_decision # NotSet
Finished == pc = "done" /\ fulfillment_data # NotSet

\* ------------------------------------------------------------------- claims

\* C1: a run whose parsed verdict is DECLINE, whatever the reason text, never
\* invokes the Fulfillment participant and ends with the default receipt
\* (pending, N/A, TBD).
C1_DeclineGivesDefaultReceipt ==
    (Decided /\ customer_decision.decision = Decline)
        => /\ CallsOf("Fulfillment") = 0
           /\ fulfillment_data = [status |-> Pending,
                                  transaction_id |-> <<W("N/A")>>,
                                  delivery_date |-> <<W("TBD")>>]

\* C2: a run in which no participant call raises and the parsed verdict is
\* DECLINE returns fulfilled = false and a detail string that reports status
\* pending.
C2_DeclineIsUnfulfilledPending ==
    (Decided /\ NoRaise /\ customer_decision.decision = Decline)
        => /\ result.fulfilled = FALSE
           /\ SubSeq(result.fulfillment_details, 1, 2) = <<W("Status: "), W("pending")>>

\* C3: the participants are invoked in the order Inventory, Pricing,
\* Decision, Fulfillment, each at most once, each only after every earlier
\* one was invoked and returned, and nothing follows a raise.
C3_StrictStageOrder ==
    LET calls == SelectSeq(log, LAMBDA e : e.ev = "call")
    IN /\ Len(calls) <= 4
       /\ \A k \in 1..Len(calls) : calls[k].who = StageOrder[k]
       /\ \A i \in 1..Len(log) :
            /\ log[i].ev = "call" /\ i > 1 =>
                 /\ log[i - 1].ev = "return"
                 /\ \A k \in 1..4 :
                      log[i].who = StageOrder[k] =>
                        \A j \in 1..(k - 1) :
                          \E a, b \in 1..(i - 1) :
                            /\ a < b
                            /\ log[a] = Called(StageOrder[j])
                            /\ log[b] = Back(StageOrder[j])
            /\ log[i].ev \in {"return", "raise"} =>
                 i > 1 /\ log[i - 1] = Called(log[i].who)
            /\ log[i].ev = "raise" => i = Len(log)

C3_Witness ==
    /\ pc = "done"
    /\ SelectSeq(log, LAMBDA e : e.ev = "call")
         = <<Called("Inventory"), Called("Pricing"), Called("Decision"),
             Called("Fulfillment")>>
    /\ log[Len(log)] = Back("Fulfillment")

\* C4: when a participant call raises, the run ends there: no later
\* participant is invoked, the failed stage's record is never parsed, and the
\* result is the error message holding the error text, fulfilled = false and
\* the error text as detail.
C4_RaiseAborts ==
    \A i \in 1..Len(log) :
        log[i].ev = "raise" =>
            /\ i = Len(log)
            /\ pc = "done"
            /\ result = [final_response |->
                            <<W("ERROR in order processing: ")>> \o log[i].e,
                         fulfilled |-> FALSE,
                         fulfillment_details |-> log[i].e]
            /\ log[i].who = "Inventory" => inventory_data = NotSet
            /\ log[i].who = "Pricing" => quote_data = NotSet
            /\ log[i].who = "Decision" => customer_decision = NotSet
            /\ fulfillment_data = NotSet
            /\ fulfillment_response = NoText

C4_Witness ==
    /\ pc = "done"
    /\ Len(log) = 8
    /\ log[8].ev = "raise"
    /\ log[8].who = "Fulfillment"
    /\ tool # NotSet

\* C5: for every pair of a verdict in {APPROVE, DECLINE} and a receipt status
\* in {success, error, pending}: fulfilled is true when the status is success,
\* otherwise it is (verdict is APPROVE) and (status is not pending).
C5_ReconciliationBoolean ==
    (/\ Finished
     /\ customer_decision.decision \in {Approve, Decline}
     /\ fulfillment_data.status \in {Success, Error, Pending})
        => result.fulfilled =
              IF fulfillment_data.status = Success THEN TRUE
              ELSE /\ customer_decision.decision = Approve
                   /\ fulfillment_data.status # Pending

C5_Witness ==
    /\ Finished
    /\ customer_decision.decision = Approve
    /\ fulfillment_data.status = Error
    /\ result.fulfilled = TRUE

\* C6: fulfilled = true only if a sales transaction was appended to the
\* transactions store during the run.
C6_FulfilledMeansSaleRecorded ==
    (pc = "done" /\ result.fulfilled) => SaleAppended

FieldsOf(parser) ==
    CASE parser = "inventory" -> {"items", "low_stock", "reorder_required", "restock_date"}
      [] parser = "quote" -> {"total_price", "itemized_breakdown", "discount_applied"}
      [] parser = "decision" -> {"decision", "reason"}
      [] parser = "fulfillment" -> {"status", "transaction_id", "delivery_date"}

\* C8: each stage parser is total: for every response text it returns a
\* record of its stage's type and raises nothing, so a run in which no
\* participant call raises goes from StockCheck to Pricing to Review and ends
\* with the summary.
C8_ParsersAreTotal ==
    /\ pc = "parsed" =>
          /\ pout.out.exc = "none"
          /\ DOMAIN pout.out.val = FieldsOf(pout.parser)
    /\ InLog(Back("Inventory")) =>
          /\ DOMAIN inventory_data = FieldsOf("inventory")
          /\ InLog(Called("Pricing"))
    /\ InLog(Back("Pricing")) =>
          /\ DOMAIN quote_data = FieldsOf("quote")
          /\ InLog(Called("Decision"))
    /\ InLog(Back("Decision")) => DOMAIN customer_decision = FieldsOf("decision")
    /\ (pc = "done" /\ NoRaise) =>
          /\ DOMAIN fulfillment_data = FieldsOf("fulfillment")
          /\ result.final_response[1] = W("ORDER PROCESSING COMPLETE")

\* A payload that decodes and does not validate: the parse failure the
\* parser has to swallow.
C8_Witness ==
    /\ pc = "parsed"
    /\ pout.parser = "inventory"
    /\ ptext = Obj(<<M("decision", JStr(<<W("APPROVE")>>))>>)
    /\ pout.out = [exc |-> "none",
                   val |-> [items |-> <<>>, low_stock |-> <<>>,
                            reorder_required |-> FALSE, restock_date |-> <<>>]]

\* A "{" followed, with no brace in between, by a "}".
HasBalancedSpan(text) ==
    \E i, j \in 1..Len(text) :
        /\ i < j
        /\ text[i] = LB
        /\ text[j] = RB
        /\ \A k \in (i + 1)..(j - 1) : text[k] \notin {LB, RB}

DocumentedDefault(parser) ==
    CASE parser = "inventory" ->
            [items |-> <<>>, low_stock |-> <<>>, reorder_required |-> FALSE,
             restock_date |-> <<>>]
      [] parser = "quote" ->
            [total_price |-> 0, itemized_breakdown |-> <<>>,
             discount_applied |-> <<W("0%")>>]
      [] parser = "decision" ->
            [decision |-> Decline, reason |-> <<W("Unable to parse decision")>>]
      [] parser = "fulfillment" ->
            [status |-> Pending, transaction_id |-> <<W("N/A")>>,
             delivery_date |-> <<W("TBD")>>]

\* C9 as stated: for a text with no balanced-brace span every one of the four
\* parsers returns exactly its documented default record.
C9_NoSpanGivesDefault ==
    (pc = "parsed" /\ ~HasBalancedSpan(ptext))
        => pout.out = [exc |-> "none", val |-> DocumentedDefault(pout.parser)]

\* C9 amended: for a text with no balanced-brace span the StockStatus,
\* PriceQuote and FulfillmentReceipt parsers return exactly their documented
\* defaults; the Decision parser returns its default when the text also
\* holds, in any letter case, neither "DECISION: APPROVE" nor
\* "DECISION: DECLINE", and otherwise returns the verdict of that literal
\* (APPROVE looked for first) with the second line of the text as the reason,
\* or "Approved" / "Declined" when the text is a single line.
C9_NoSpanGivesDefaultOrLiteral ==
    LET oneLine == \A i \in 1..Len(ptext) : ptext[i] # NL
        line2 == IF oneLine THEN <<>> ELSE split(ptext)[2]
    IN (pc = "parsed" /\ ~HasBalancedSpan(ptext))
        => /\ pout.out.exc = "none"
           /\ IF pout.parser # "decision"
              THEN pout.out.val = DocumentedDefault(pout.parser)
              ELSE IF Contains(upper(ptext), "DECISION: APPROVE")
              THEN pout.out.val =
                      [decision |-> Approve,
                       reason |-> IF oneLine THEN <<W("Approved")>> ELSE line2]
              ELSE IF Contains(upper(ptext), "DECISION: DECLINE")
              THEN pout.out.val =
                      [decision |-> Decline,
                       reason |-> IF oneLine THEN <<W("Declined")>> ELSE line2]
              ELSE pout.out.val = DocumentedDefault("decision")

\* Unmatched braces and no DECISION literal: the Decision parser's default.
C9_Witness ==
    /\ pc = "parsed"
    /\ pout.parser = "decision"
    /\ ptext = <<RB, W("price is fair"), LB>>
    /\ pout.out.val = [decision |-> Decline,
                       reason |-> <<W("Unable to parse decision")>>]

\* The decodable payloads of a text that hold a `decision` key.
DecisionPayloads(text) ==
    {d \in {json_loads(SubSeq(text, i, j)) : i, j \in 1..Len(text)} :
        d.exc = "none" /\ "decision" \in DOMAIN d.val}

HasDecisionLiteral(text) ==
    Contains(text, "DECISION: APPROVE") \/ Contains(text, "DECISION: DECLINE")

\* C10 as stated: a Decision response that contains a decodable payload with
\* a `decision` key and contains a DECISION literal is parsed to that
\* payload's decision and reason.
C10_StructuredWins ==
    (/\ pc = "parsed"
     /\ pout.parser = "decision"
     /\ HasDecisionLiteral(ptext)
     /\ DecisionPayloads(ptext) # {})
        => \E d \in DecisionPayloads(ptext) :
              /\ d.val["decision"].jt = "str"
              /\ "reason" \in DOMAIN d.val
              /\ d.val["reason"].jt = "str"
              /\ pout.out.val = [decision |-> d.val["decision"].s,
                                 reason |-> d.val["reason"].s]

\* The text from its first "{" to its last "}" (empty when there is none).
FirstToLast(text) ==
    LET opens == {i \in 1..Len(text) : text[i] = LB}
        closes == {i \in 1..Len(text) : text[i] = RB}
    IN IF opens = {} \/ closes = {} THEN <<>>
       ELSE SubSeq(text, CHOOSE i \in opens : \A j \in opens : i <= j,
                         CHOOSE i \in closes : \A j \in closes : j <= i)

\* C10 amended: when the text from the first "{" to the last "}" of a
\* Decision response decodes to a mapping that holds both `decision` and
\* `reason` as strings, and the response contains a DECISION literal, the
\* parser returns that mapping's decision and reason, not those of the
\* literal line.
C10_StructuredWinsWhenSpanValidates ==
    LET d == json_loads(FirstToLast(ptext))
    IN (/\ pc = "parsed"
        /\ pout.parser = "decision"
        /\ HasDecisionLiteral(ptext)
        /\ d.exc = "none"
        /\ {"decision", "reason"} \subseteq DOMAIN d.val
        /\ d.val["decision"].jt = "str"
        /\ d.val["reason"].jt = "str")
          => pout.out = [exc |-> "none",
                         val |-> [decision |-> d.val["decision"].s,
                                  reason |-> d.val["reason"].s]]

\* The literal says APPROVE, the payload says DECLINE: the payload wins.
C10_Witness ==
    /\ pc = "parsed"
    /\ pout.parser = "decision"
    /\ ptext = <<W("DECISION: APPROVE"), NL>>
                 \o Obj(<<M("decision", JStr(<<W("DECLINE")>>)),
                          M("reason", JStr(<<W("too expensive")>>))>>)
    /\ pout.out.val = [decision |-> Decline, reason |-> <<W("too expensive")>>]

\* The structured tier of the Decision parser yields no record: no payload,
\* no `decision` key, or a payload that is not a valid record.
NoStructuredDecision(text) ==
    LET data == _extract_json_from_response(text)
    IN \/ DOMAIN data = {}
       \/ "decision" \notin DOMAIN data
       \/ ~(/\ data["decision"].jt = "str"
             /\ "reason" \in DOMAIN data
             /\ data["reason"].jt = "str")

\* C11: whenever the structured tier yields no Decision record and the text
\* holds, in any letter case, "DECISION: APPROVE" or "DECISION: DECLINE", the
\* Decision parser returns the verdict of that literal and not the default
\* Decision(DECLINE, "Unable to parse decision").
C11_LiteralTierAfterFailedPayload ==
    (/\ pc = "parsed"
     /\ pout.parser = "decision"
     /\ NoStructuredDecision(ptext)
     /\ HasDecisionLiteral(upper(ptext)))
        => /\ pout.out.exc = "none"
           /\ pout.out.val.decision =
                 IF Contains(upper(ptext), "DECISION: APPROVE")
                 THEN Approve ELSE Decline
           /\ pout.out.val # DocumentedDefault("decision")

\* `part in text`, for a text `part` of any length.
Holds(text, part) ==
    \E i \in 1..(Len(text) - Len(part) + 1) :
        SubSeq(text, i, i + Len(part) - 1) = part

\* The receipts {status: "success", transaction_id: T, delivery_date: D}
\* that a text carries.
SuccessPayloads(text) ==
    {d \in {json_loads(SubSeq(text, i, j)) : i, j \in 1..Len(text)} :
        /\ d.exc = "none"
        /\ {"status", "transaction_id", "delivery_date"} \subseteq DOMAIN d.val
        /\ d.val["status"] = JStr(Success)
        /\ d.val["transaction_id"].jt = "str"
        /\ d.val["delivery_date"].jt = "str"}

C13_VerdictIsApproveOrDecline ==
    /\ (pc = "parsed" /\ pout.parser = "decision")
          => /\ pout.out.exc = "none"
             /\ pout.out.val.decision \in {Approve, Decline}
    /\ customer_decision # NotSet
          => customer_decision.decision \in {Approve, Decline}

\* C14: every FulfillmentReceipt produced by _parse_fulfillment_response,
\* called on its own or within a run, has a status in {success, error,
\* pending}; when the payload of the response carries no status, or a status
\* outside that set, the status is "pending".
C14_StatusIsInEnum ==
    /\ (pc = "parsed" /\ pout.parser = "fulfillment")
          => /\ pout.out.exc = "none"
             /\ pout.out.val.status \in {Success, Error, Pending}
             /\ LET data == _extract_json_from_response(ptext)
                IN (\/ "status" \notin DOMAIN data
                    \/ data["status"] \notin {JStr(Success), JStr(Error), JStr(Pending)})
                      => pout.out.val.status = Pending
    /\ fulfillment_data # NotSet
          => /\ fulfillment_data.status \in {Success, Error, Pending}
             /\ LET data == _extract_json_from_response(fulfillment_response)
                IN (\/ "status" \notin DOMAIN data
                    \/ data["status"] \notin {JStr(Success), JStr(Error), JStr(Pending)})
                      => fulfillment_data.status = Pending

\* The record a payload's own fields make, with `items` and `low_stock`
\* empty where the payload has none.
CoercedInventory(data) ==
    [items |-> IF "items" \in DOMAIN data
               THEN [n \in DOMAIN data["items"].d |-> data["items"].d[n].n]
               ELSE <<>>,
     low_stock |-> IF "low_stock" \in DOMAIN data THEN data["low_stock"].l ELSE <<>>,
     reorder_required |-> data["reorder_required"].b,
     restock_date |-> IF "restock_date" \in DOMAIN data
                      THEN data["restock_date"].s ELSE None]

\* The fields a payload holds are of their declared types.
InventoryFieldsValid(data) ==
    /\ "items" \in DOMAIN data =>
          /\ data["items"].jt = "dict"
          /\ \A n \in DOMAIN data["items"].d : data["items"].d[n].jt = "num"
    /\ "low_stock" \in DOMAIN data => data["low_stock"].jt = "list"
    /\ "reorder_required" \in DOMAIN data
    /\ data["reorder_required"].jt = "bool"
    /\ "restock_date" \in DOMAIN data => data["restock_date"].jt = "str"

\* C15 as stated: when the Inventory response carries a decodable mapping
\* that lacks `items` and/or `low_stock` and is otherwise valid,
\* _parse_inventory_response returns the payload's other fields with the
\* missing `items` as an empty mapping and the missing `low_stock` as an empty
\* collection.
C15_MissingKeysCoerced ==
    LET data == _extract_json_from_response(ptext)
    IN (/\ pc = "parsed"
        /\ pout.parser = "inventory"
        /\ DOMAIN data # {}
        /\ {"items", "low_stock"} \ DOMAIN data # {}
        /\ InventoryFieldsValid(data))
          => pout.out = [exc |-> "none", val |-> CoercedInventory(data)]

\* C15 amended: when the Inventory response carries a decodable mapping that
\* lacks `items` or `low_stock`, _parse_inventory_response returns the full
\* default StockStatus (items {}, low_stock [], reorder_required false,
\* restock_date "") whatever the other fields of the payload are; a mapping
\* that holds every required field with its declared type is returned field
\* by field, and the default is returned only on validation failure or when
\* no mapping is found.
C15_MissingKeysGiveDefault ==
    LET data == _extract_json_from_response(ptext)
    IN (pc = "parsed" /\ pout.parser = "inventory")
          => /\ pout.out.exc = "none"
             /\ IF /\ {"items", "low_stock"} \subseteq DOMAIN data
                   /\ InventoryFieldsValid(data)
                THEN pout.out.val = CoercedInventory(data)
                ELSE pout.out.val = DocumentedDefault("inventory")

\* The payload asks for a reorder and names no items: the default is
\* returned, the reorder flag and the restock date are lost.
C15_Witness ==
    /\ pc = "parsed"
    /\ pout.parser = "inventory"
    /\ ptext = Obj(<<M("low_stock", JList(<<"A4">>)),
                     M("reorder_required", JBool(TRUE)),
                     M("restock_date", JStr(<<W("2025-01-10")>>))>>)
    /\ pout.out.val = [items |-> <<>>, low_stock |-> <<>>,
                       reorder_required |-> FALSE, restock_date |-> <<>>]

\* C16: for every text, _extract_json_from_response returns the mapping that
\* the span from the first "{" to the last "}" of the text decodes to, and
\* the empty mapping when there is no such span or the span does not decode
\* (two separate objects in one text, for one); it raises nothing.
C16_ExtractorTakesFirstToLast ==
    pc = "extracted" =>
        LET d == json_loads(FirstToLast(ptext))
        IN pout.out = [exc |-> "none",
                       val |-> JDict(IF d.exc = "none" THEN d.val ELSE <<>>)]

\* Two objects in one text: the span from the first "{" to the last "}" is
\* not one JSON document.
C16_Witness ==
    /\ pc = "extracted"
    /\ ptext = Obj(<<M("decision", JStr(<<W("APPROVE")>>))>>)
                 \o ReceiptObj(<<W("error")>>, <<W("N/A")>>, <<W("TBD")>>)
    /\ pout.out = [exc |-> "none", val |-> JDict(<<>>)]

\* C17: process_customer_request returns the single formatted error string if
\* and only if a participant call raised; every run in which no call raises,
\* approved or declined and whatever the receipt status (error included),
\* returns the four-stage summary of its four stage records.
C17_ErrorStringIffRaise ==
    pc = "done" =>
        /\ (result.final_response[1] = W("ERROR in order processing: ")) <=> ~NoRaise
        /\ ~NoRaise => Len(result.final_response) = 2
        /\ NoRaise =>
              result.final_response =
                  <<W("ORDER PROCESSING COMPLETE"),
                    W("STEP 1 - INVENTORY STATUS"), Fmt(inventory_data),
                    W("STEP 2 - PRICING QUOTE"), Fmt(quote_data),
                    W("STEP 3 - CUSTOMER DECISION"), Fmt(customer_decision),
                    W("STEP 4 - ORDER FULFILLMENT"), Fmt(fulfillment_data),
                    W("END OF ORDER PROCESSING")>>

\* An approved order whose receipt has status "error": no abort, the summary
\* is returned.
C17_Witness ==
    /\ pc = "done"
    /\ NoRaise
    /\ customer_decision.decision = Approve
    /\ fulfillment_data.status = Error
    /\ result.final_response[1] = W("ORDER PROCESSING COMPLETE")

\* The sales row a tool call asks for.
SaleRow(call) ==
    [item_name |-> call.item_name, transaction_type |-> "sales",
     units |-> call.quantity]

Rejected(call) == call.ret = [status |-> "error", transaction_id |-> "N/A"]

\* C18 as stated: a call of create_order_fulfillment_tool whose quantity
\* exceeds the looked-up stock returns status "error" with transaction_id
\* "N/A" and appends nothing; a call whose quantity is at most the stock
\* (equality included) appends exactly one sales transaction and returns
\* status "success".
C18_ToolRejectsOrSells ==
    [][(pc = "idle" /\ pc' = "tooled") =>
          IF tool'.quantity > get_stock_level(transactions, tool'.item_name)
          THEN Rejected(tool') /\ transactions' = transactions
          ELSE /\ transactions' = Append(transactions, SaleRow(tool'))
               /\ tool'.ret.status = "success"]_vars

\* C18 amended: a call whose quantity exceeds the looked-up stock returns
\* status "error" with transaction_id "N/A" and appends nothing.  A call
\* whose quantity is at most the stock (equality included) appends exactly
\* one sales transaction and returns status "success" when create_transaction
\* returns; when create_transaction raises, the tool returns status "error"
\* with transaction_id "N/A" as well, with nothing appended if the insert
\* failed and the sales row appended if the read-back of its id failed.
C18_ToolRejectsSellsOrFails ==
    [][(pc = "idle" /\ pc' = "tooled") =>
          IF tool'.quantity > get_stock_level(transactions, tool'.item_name)
          THEN Rejected(tool') /\ transactions' = transactions
          ELSE CASE tool'.db \in {"ok", "other_connection"} ->
                      /\ transactions' = Append(transactions, SaleRow(tool'))
                      /\ tool'.ret.status = "success"
                 [] tool'.db = "insert_fails" ->
                      Rejected(tool') /\ transactions' = transactions
                 [] tool'.db = "readback_fails" ->
                      /\ Rejected(tool')
                      /\ transactions' = Append(transactions, SaleRow(tool'))]_vars

\* The whole stock is sold: quantity equals the stock and the sale is
\* recorded.
C18_Witness ==
    /\ pc = "tooled"
    /\ tool.quantity = SeedStock
    /\ tool.ret.status = "success"
    /\ transactions = Append(SeedTransactions, SaleRow(tool))

\* C19: no two successful create_transaction calls return the same
\* identifier, whether they run one after the other or interleaved, and the
\* store is append-only: no existing row is changed or removed.
C19_UniqueIdsAppendOnly ==
    /\ [](\A c, d \in Callers :
              (c # d /\ callers[c].at = "returned" /\ callers[d].at = "returned")
                  => callers[c].id # callers[d].id)
    /\ [][/\ Len(transactions') >= Len(transactions)
          /\ SubSeq(transactions', 1, Len(transactions)) = transactions]_vars

Quoted == pc = "quoted" /\ tool.out.exc = "none"
QuoteItems == tool.out.val.quote_items
TierOf(quantity) ==
    IF quantity <= 100 THEN 0
    ELSE IF quantity <= 500 THEN 5
    ELSE IF quantity <= 1000 THEN 10
    ELSE 15

\* C21: every line of a quote generate_quote_tool returns carries the
\* discount of its quantity's tier (up to 100: 0%, 101..500: 5%, 501..1000:
\* 10%, from 1001: 15%), as the discount shown and in the line's total.
C21_DiscountByQuantityTier ==
    Quoted =>
        \A i \in 1..Len(QuoteItems) :
            LET line == QuoteItems[i]
            IN /\ line.discount = ToString(TierOf(line.quantity)) \o "%"
               /\ line.item_total
                    = line.unit_price * (100 - TierOf(line.quantity)) * line.quantity

\* A quote with a line at the top of one tier and a line at the bottom of
\* the next.
C21_Witness ==
    /\ Quoted
    /\ Len(QuoteItems) = 2
    /\ QuoteItems[1].quantity = 500 /\ QuoteItems[1].discount = "5%"
    /\ QuoteItems[2].quantity = 501 /\ QuoteItems[2].discount = "10%"

\* ---------------------------------------------------------------- C22
\* The transaction type a caller of create_transaction passed.
TypeOf(c) ==
    IF callers[c].at = "raised" THEN callers[c].type
    ELSE transactions[callers[c].row].transaction_type

\* C22: a call of create_transaction with a transaction type other than
\* 'stock_orders' and 'sales' ends in ValueError raised to its caller, and
\* the step that raises it leaves the transactions table as it was; no
\* call with another type gets past the validation.
C22_InvalidTypeRaisesValueError ==
    /\ [](pc = "store" =>
            \A c \in Callers :
                callers[c].at # "start" =>
                    (TypeOf(c) \notin {"stock_orders", "sales"}
                        <=> (callers[c].at = "raised" /\ callers[c].exc = "ValueError")))
    /\ [][\A c \in Callers :
            (callers[c].at = "start" /\ callers'[c].at = "raised"
                /\ callers'[c].exc = "ValueError")
            => transactions' = transactions]_vars

\* A caller's row is in the table, and another caller's call with the type
\* 'refund' has raised ValueError since.
C22_Witness ==
    /\ pc = "store"
    /\ \E c, d \in Callers :
        /\ callers[c].at = "returned"
        /\ callers[d] = [at |-> "raised", exc |-> "ValueError", type |-> "refund"]
        /\ transactions = Append(SeedTransactions, transactions[callers[c].row])

\* ---------------------------------------------------------------- C23
\* C23: every PriceQuote record produced by _parse_quote_response, called on
\* its own or within a run, has a total_price of zero or more.
C23_TotalPriceNonNegative ==
    /\ (pc = "parsed" /\ pout.parser = "quote")
          => (pout.out.exc = "none" /\ pout.out.val.total_price >= 0)
    /\ quote_data # NotSet => quote_data.total_price >= 0

\* ---------------------------------------------------------------- C24
\* The Decision parser reaches its literal tier: the extractor gave no
\* mapping with a `decision` key, and the text holds a DECISION literal.
LiteralTier(text) ==
    LET data == _extract_json_from_response(text)
    IN /\ ~(DOMAIN data # {} /\ "decision" \in DOMAIN data)
       /\ HasDecisionLiteral(upper(text))

LineHoldsLiteral(line) == HasDecisionLiteral(upper(line))
Placeholder(text) ==
    IF Contains(upper(text), "DECISION: APPROVE")
    THEN <<W("Approved")>> ELSE <<W("Declined")>>

\* C24 as stated: in the literal tier the reason is the line that follows the
\* first line holding the DECISION literal, or the placeholder when that
\* line is the last one, wherever the decision line stands.
C24_ReasonFollowsDecisionLine ==
    (pc = "parsed" /\ pout.parser = "decision" /\ LiteralTier(ptext))
        => LET lines == split(ptext)
               at == CHOOSE i \in 1..Len(lines) :
                         /\ LineHoldsLiteral(lines[i])
                         /\ \A h \in 1..(i - 1) : ~LineHoldsLiteral(lines[h])
           IN pout.out.val.reason =
                 IF at < Len(lines) THEN lines[at + 1] ELSE Placeholder(ptext)

\* C24, amended: in the literal tier the reason is the second line of the
\* response whenever the response has a line break, whichever line holds
\* the DECISION literal, and the placeholder when it has none.
C24_ReasonIsSecondLine ==
    (pc = "parsed" /\ pout.parser = "decision" /\ LiteralTier(ptext))
        => LET lines == split(ptext)
           IN pout.out.val.reason =
                 IF Len(lines) > 1 THEN lines[2] ELSE Placeholder(ptext)

\* The decision line is the second of two: the reason returned is that line.
C24_Witness ==
    /\ pc = "parsed"
    /\ pout.parser = "decision"
    /\ ptext = <<W("price is fair"), NL, W("DECISION: APPROVE")>>
    /\ pout.out.val = [decision |-> Approve, reason |-> <<W("DECISION: APPROVE")>>]

\* ---------------------------------------------------------------- C25
\* C25: the delivery date handed to the Fulfillment participant is the
\* StockStatus restock_date when that is a text of at least one character,
\* and the request date otherwise (no restock_date in the payload, or the
\* parser's default record); the request date is the caller's, or the day of
\* the call when the caller's is empty.
C25_DeliveryDateIsRestockOrRequestDate ==
    fulfillment_context # NotSet =>
        /\ fulfillment_context.request_date = request_date
        /\ fulfillment_context.delivery_date =
              IF inventory_data.restock_date # None /\ Len(inventory_data.restock_date) > 0
              THEN inventory_data.restock_date
              ELSE request_date
        /\ inventory_data = DefaultInventoryStatus
              => fulfillment_context.delivery_date = request_date
        /\ AllKept =>
              request_date = IF inputs[1].request_date # <<>> THEN inputs[1].request_date
                             ELSE IF previous = NotSet THEN Today
                             ELSE request_date
        /\ (AllKept /\ inputs[1].request_date = <<>>) => request_date \in Days

\* The caller gave no date and the parser's default StockStatus stands: the
\* Fulfillment participant is handed the day of the call as delivery date.
C25_Witness ==
    /\ pc = "fulfillment"
    /\ AllKept
    /\ inputs[1].request_date = <<>>
    /\ inventory_data = DefaultInventoryStatus
    /\ fulfillment_context.delivery_date = Today

Running == pc \in {"inventory", "quote", "customer", "fulfillment"}
ParticipantCalls == Cardinality({i \in 1..Len(log) : log[i].ev = "call"})

\* C27: when every participant call returns or raises, a call of
\* process_customer_request comes to its end; at its end it has returned a
\* triple (final_response, fulfilled, fulfillment_details) and raised
\* nothing; it makes four participant calls at most.
C27_CallTerminatesWithTriple ==
    /\ [](Running => <>(pc = "done"))
    /\ [](pc # "idle"
            => /\ Running \/ pc = "done"
               /\ ParticipantCalls <= 4
               /\ pc = "done" =>
                     /\ DOMAIN result
                           = {"final_response", "fulfilled", "fulfillment_details"}
                     /\ result.fulfilled \in BOOLEAN)

\* A call that made its four participant calls, the last of which raised,
\* has returned the error triple.
C27_Witness ==
    /\ pc = "done"
    /\ previous = NotSet
    /\ ParticipantCalls = 4
    /\ log[Len(log)].ev = "raise"
    /\ result.fulfilled = FALSE

\* ------------------------------------------------------------------ C28
Sold(item) == SumUnits(transactions, item, "sales")
Stocked(item) == SumUnits(transactions, item, "stock_orders")

\* C28: while several fulfillments of one item run concurrently, the units of
\* its sales transactions never exceed the units of its stock_orders
\* transactions.
C28_ConcurrentSalesWithinStock ==
    pc = "selling" => \A item \in Items : Sold(item) <= Stocked(item)

\* ------------------------------------------------------------------ C29
\* C29: create_order_fulfillment_tool returns a dict whatever happens, and a
\* call that returns status "error" has appended no transaction, while a call
\* that returns status "success" has appended exactly one sales transaction.
C29_ToolIsAllOrNothing ==
    [][(pc = "idle" /\ pc' = "tooled") =>
          /\ tool'.ret.status \in {"success", "error"}
          /\ tool'.ret.status = "error" => transactions' = transactions
          /\ tool'.ret.status = "success"
                => transactions' = Append(transactions, SaleRow(tool'))]_vars

\* ------------------------------------------------------------------ C30
\* The two input lists of the call, and the (item, quantity) pairs that zip
\* makes of them whose item the inventory table holds.
ItemList == StripAll(split_comma(tool.items))
QtyList == StripAll(split_comma(tool.quantities))
Shorter == IF Len(ItemList) <= Len(QtyList) THEN Len(ItemList) ELSE Len(QtyList)
IsStocked(item) ==
    \E r \in 1..Len(InventoryTable) : <<W(InventoryTable[r].item_name)>> = item
KnownPairs ==
    SelectSeq([i \in 1..Shorter |-> [item |-> ItemList[i],
                                     quantity |-> int(QtyList[i])]],
              LAMBDA pair : IsStocked(pair.item))

RECURSIVE SumOfTotals(_)
SumOfTotals(lines) ==
    IF Len(lines) = 0 THEN 0 ELSE lines[1].item_total + SumOfTotals(Tail(lines))

\* C30: in the result of generate_quote_tool, total_amount is the sum of
\* item_total over quote_items, and quote_items holds one line, in input
\* order, for each pair of the zipped input lists whose item is in the
\* inventory table, and no other line.
C30_TotalIsSumOfKnownLines ==
    Quoted =>
        /\ tool.out.val.total_amount = SumOfTotals(QuoteItems)
        /\ [i \in 1..Len(QuoteItems) |-> [item |-> QuoteItems[i].item,
                                          quantity |-> QuoteItems[i].quantity]]
             = KnownPairs

\* An unknown item ahead of a known one: the quote holds the known item's
\* line alone, with the quantity given at its position.
C30_Witness ==
    /\ Quoted
    /\ tool.items = <<W("Glitter"), COMMA, SP, W("Cardstock")>>
    /\ tool.quantities = <<D(1), COMMA, SP, D(101)>>
    /\ Len(QuoteItems) = 1
    /\ QuoteItems[1].quantity = 101
    /\ tool.out.val.total_amount = 15 * 95 * 101

====
